---- MODULE Spec2Model ----
(***************************************************************************)
(* Model of mo22/control: the manifest model (Config, Service), the group  *)
(* and filter resolver (Config.get_services), the unit synthesizer         *)
(* (SystemD.service_template, SystemD.timer_template) and the lifecycle    *)
(* operations (SystemD.install .. SystemD.is_enabled, class Commands).    *)
(* The model follows src/control/api.py, the most complete iteration.      *)
(*                                                                         *)
(* Text is a sequence of lines, a line a sequence of tokens; every line of *)
(* a template is terminated by "\n".  A carriage return is the token "\r". *)
(* A path is a sequence of tokens <<directory, "/", file, suffix...>>.     *)
(***************************************************************************)
EXTENDS Integers, Sequences, FiniteSets, TLC

VARIABLES
    files,    \* unit directory /etc/systemd/system/: unit -> text on disk, or NoFile
    active,   \* Supervisor: the units that are active
    enabled,  \* Supervisor: the units that are enabled
    version,  \* Supervisor: the host's systemd version
    pc,       \* "idle": no process is running; "exited": an invocation has returned
    last,     \* what the invocation that returned did (its calls, writes, outcome)
    rs,       \* the resolver's manifest, selector and result (SpecResolve)
    ps,       \* the processes of a running 'log' or 'run' command (SpecLog, SpecRun)
    ld        \* the loader's input and result (SpecExec, SpecSubst)

vars == <<files, active, enabled, version, pc, last, rs, ps, ld>>

(***************************************************************************)
(* Values                                                                  *)
(***************************************************************************)
None == "None"
NoneText == <<<<"None">>>>
NoFile == <<<<"ENOENT">>>>
NoUnit == <<"", "", "">>

\* The modelled host runs one of the two systemd generations service_template tells apart.
Versions == {244, 245}

(***************************************************************************)
(* Manifests (Config objects as loaded).                                   *)
(***************************************************************************)
Service0 ==
    [type |-> None, args |-> <<"/bin/true">>, cwd |-> None, env |-> <<>>, user |-> None,
     systemd |-> NoneText, systemd_timer |-> NoneText, interval |-> None,
     first_interval |-> None, random_delay |-> None, cron |-> <<None>>,
     max_cpu |-> None, max_memory |-> None, max_time |-> None, nofile |-> None,
     syslog |-> FALSE]

\* A daemon whose passthrough block was written with CRLF line ends.
SvcWeb ==
    [Service0 EXCEPT !.type = "daemon",
                     !.args = <<"/usr/bin/node", "/srv/app/web.js", "--title=my app">>,
                     !.env = <<<<"PORT", "8080">>>>,
                     !.max_memory = "1G",
                     !.systemd = <<<<"LimitCORE=0", "\r">>, <<"PrivateTmp=yes", "\r">>>>]

\* A job on two calendar schedules.
SvcJob ==
    [Service0 EXCEPT !.type = "cron",
                     !.args = <<"/bin/sh", "-c", "rsync -a /srv /backup">>,
                     !.user = "app",
                     !.cron = <<"daily", "Mon *-*-* 03:00:00">>,
                     !.random_delay = "5m"]

\* The daemon of the second manifest.
SvcApi ==
    [Service0 EXCEPT !.type = "daemon",
                     !.args = <<"/srv/app/api.sh">>,
                     !.nofile = "4096"]

CfgA ==
    [name |-> "app", path |-> <<"/srv/app", "/", "control.yaml">>,
     order |-> <<"web", "job">>,
     services |-> ("web" :> SvcWeb) @@ ("job" :> SvcJob),
     groups |-> ("jobs" :> <<"job">>)]

\* A copy of the manifest kept beside the original: CfgA's path is a prefix of its path.
CfgB ==
    [name |-> "bak", path |-> <<"/srv/app", "/", "control.yaml", ".bak">>,
     order |-> <<"api">>,
     services |-> ("api" :> SvcApi),
     groups |-> <<>>]

Manifests == {CfgA, CfgB}

\* One manifest at different times: control.yaml of "rev" declares one service, "svc",
\* and is edited between invocations.  The revisions differ in the service's type and
\* scheduling fields; "fortnightly-ish" is no calendar expression.
Rev(sv) ==
    [name |-> "rev", path |-> <<"/srv/rev", "/", "control.yaml">>,
     order |-> <<"svc">>, services |-> ("svc" :> sv), groups |-> <<>>]
Revisions ==
    {Rev(Service0),
     Rev([Service0 EXCEPT !.interval = "1h"]),
     Rev([Service0 EXCEPT !.type = "daemon"]),
     Rev([Service0 EXCEPT !.type = "daemon", !.cron = <<"daily">>]),
     Rev([Service0 EXCEPT !.type = "periodic", !.interval = "1h"]),
     Rev([Service0 EXCEPT !.type = "periodic"]),
     Rev([Service0 EXCEPT !.type = "cron", !.cron = <<"daily">>]),
     Rev([Service0 EXCEPT !.type = "cron"]),
     Rev([Service0 EXCEPT !.type = "cron", !.cron = <<"daily", "fortnightly-ish">>])}

ServiceNames(c) == {c.order[i] : i \in DOMAIN c.order}

Exts == {"service", "timer"}
Unit(c, s, ext) == <<c.name, s, ext>>
Units ==
    UNION {{Unit(c, s, ext) : s \in ServiceNames(c), ext \in Exts} : c \in Manifests \cup Revisions}


(***************************************************************************)
(* Text helpers                                                            *)
(***************************************************************************)
RECURSIVE Flatten(_)
Flatten(ss) == IF ss = <<>> THEN <<>> ELSE Head(ss) \o Flatten(Tail(ss))

Opt(cond, lines) == IF cond THEN lines ELSE <<>>

\* Python's universal-newline text mode, applied by open(path, 'r').read(): "\r\n"
\* and a lone "\r" both read back as "\n".  A line is stored without its "\n".
RECURSIVE SplitCR(_, _)
SplitCR(line, acc) ==
    IF line = <<>> THEN <<acc>>
    ELSE IF Head(line) = "\r"
         THEN IF Tail(line) = <<>> THEN <<acc>>
              ELSE <<acc>> \o SplitCR(Tail(line), <<>>)
         ELSE SplitCR(Tail(line), Append(acc, Head(line)))

universal_newlines(text) == Flatten([i \in DOMAIN text |-> SplitCR(text[i], <<>>)])

\* needle in line, for strings without a line break
Contains(line, needle) ==
    \E i \in 1..(Len(line) - Len(needle) + 1) : SubSeq(line, i, i + Len(needle) - 1) = needle

\* needle in text (the Python operator `in` on str), needle holding no line break
TextContains(text, needle) == \E i \in DOMAIN text : Contains(text[i], needle)

\* os.path.dirname of <<directory, "/", file, ...>>
dirname(path) == path[1]

\* shlex.quote: a string of safe characters only is returned as is, any other is
\* wrapped in single quotes.
ShellSafe == {"/bin/true", "/usr/bin/node", "/srv/app/web.js", "/srv/app/api.sh",
              "/bin/sh", "-c"}
quote(a) == IF a \in ShellSafe THEN <<a>> ELSE <<"'", a, "'">>

RECURSIVE JoinQuoted(_)
JoinQuoted(args) ==
    IF args = <<>> THEN <<>>
    ELSE IF Tail(args) = <<>> THEN quote(Head(args))
    ELSE quote(Head(args)) \o <<" ">> \o JoinQuoted(Tail(args))

\* the ownership marker '# control.yaml=<path>'
Marker(c) == <<"# control.yaml=">> \o c.path

(***************************************************************************)
(* Unit Synthesizer                                                        *)
(***************************************************************************)
service_template(c, s, ver) ==
    LET sv == c.services[s] IN
    <<  <<"# created by control.py">>,
        Marker(c),
        <<>>,
        <<"[Unit]">>,
        <<"Description=", c.name, "-", s>>,
        <<"After=syslog.target network.target">>,
        IF ver > 244 THEN <<"StartLimitIntervalSec=0">> ELSE <<"StartLimitInterval=0">>,
        <<>>,
        <<"[Service]">>,
        <<"Type=simple">>  >>
    \o (IF sv.type = "daemon"
        THEN << <<"Restart=on-failure">>, <<"RestartSec=10">> >>
        ELSE << <<"Restart=no">> >>)
    \o << <<"StandardOutput=journal">>,
          <<"StandardError=journal">>,
          IF sv.syslog THEN <<"SyslogIdentifier=", "True">>
                       ELSE <<"SyslogIdentifier=", c.name, "-", s>>,
          <<"User=", IF sv.user # None THEN sv.user ELSE "root">>,
          <<"ExecStart=">> \o JoinQuoted(sv.args),
          <<"WorkingDirectory=", IF sv.cwd # None THEN sv.cwd ELSE dirname(c.path)>> >>
    \o [i \in DOMAIN sv.env |-> <<"Environment=", sv.env[i][1], "=", sv.env[i][2]>>]
    \o Opt(sv.max_cpu # None, << <<"CPUQuota=", sv.max_cpu>> >>)
    \o Opt(sv.max_memory # None, << <<"MemoryMax=", sv.max_memory>> >>)
    \o Opt(sv.max_time # None, << <<"RuntimeMaxSec=", sv.max_time>> >>)
    \o Opt(sv.nofile # None, << <<"LimitNOFILE=", sv.nofile>> >>)
    \o Opt(sv.systemd # NoneText, sv.systemd)
    \o Opt(sv.type = "daemon", << <<>>, <<"[Install]">>, <<"WantedBy=multi-user.target">> >>)


(***************************************************************************)
(* The world an invocation runs in and acts on.  An operator below takes   *)
(* the world w and returns the world after the statement.  w.exc is the    *)
(* exception in flight: 0 for none, otherwise the return code of the       *)
(* CalledProcessError; a statement reached with an exception in flight is  *)
(* not executed.  w.faults are the <<verb, unit>> invocations that exit     *)
(* with w.fcode in this invocation, whatever the Supervisor's state.       *)
(* w.trace is what the invocation did, in the order it did it: the         *)
(* Supervisor invocations, the files written and the files unlinked.       *)
(* w.out is what 'status' printed: <<name, enabled, running>> per line.    *)
(***************************************************************************)
World(fs, ac, en, ver, faults, fcode) ==
    [files |-> fs, active |-> ac, enabled |-> en, version |-> ver,
     faults |-> faults, fcode |-> fcode,
     calls |-> <<>>, written |-> <<>>, deleted |-> <<>>, visited |-> <<>>,
     trace |-> <<>>, out |-> <<>>, exc |-> 0, ret |-> FALSE, text |-> NoneText]

Caught(w) == [w EXCEPT !.exc = 0]

\* exit code of `systemctl <verb> <unit>` (and of systemd-analyze calendar)
ExitCode(w, verb, unit) ==
    IF <<verb, unit>> \in w.faults THEN w.fcode
    ELSE IF verb = "is-active" THEN (IF unit \in w.active THEN 0 ELSE 3)
    ELSE IF verb = "is-enabled" THEN (IF unit \in w.enabled THEN 0 ELSE 1)
    ELSE IF verb = "status" THEN (IF unit \in w.active THEN 0 ELSE 3)
    ELSE IF verb \in {"start", "restart", "reload", "enable"}
         THEN (IF w.files[unit] = NoFile THEN 5 ELSE 0)
    ELSE 0

\* SystemD.run: subprocess.check_call raises CalledProcessError on a non-zero exit
run(w, verb, unit) ==
    IF w.exc # 0 THEN w
    ELSE LET rc == ExitCode(w, verb, unit) IN
         [w EXCEPT !.calls = Append(@, <<verb, unit, rc>>),
                   !.trace = Append(@, <<verb, unit>>),
                   !.exc = rc,
                   !.active = IF rc # 0 THEN @
                              ELSE IF verb \in {"start", "restart"} THEN @ \cup {unit}
                              ELSE IF verb = "stop" THEN @ \ {unit}
                              ELSE @,
                   !.enabled = IF rc # 0 THEN @
                               ELSE IF verb = "enable" THEN @ \cup {unit}
                               ELSE IF verb = "disable" THEN @ \ {unit}
                               ELSE @]

\* SystemD.file_read; the caller handles a missing file (an exception)
file_read(w, path) == universal_newlines(w.files[path])

\* SystemD.file_write: both branches (open/write as root, sudo tee otherwise) put
\* content on disk; on POSIX the text layer writes "\n" and "\r" as they are.
file_write(w, path, content) ==
    IF w.exc # 0 THEN w
    ELSE IF w.files[path] # NoFile /\ file_read(w, path) = content THEN w
    ELSE [w EXCEPT !.files[path] = content, !.written = Append(@, path),
                   !.trace = Append(@, <<"write", path>>)]

\* SystemD.file_delete: both branches (os.unlink as root, sudo rm otherwise)
file_delete(w, path) ==
    IF w.exc # 0 THEN w
    ELSE IF w.files[path] = NoFile THEN w
    ELSE [w EXCEPT !.files[path] = NoFile, !.deleted = Append(@, path),
                   !.trace = Append(@, <<"unlink", path>>)]

\* systemd-analyze calendar <expr>: the Supervisor's calendar-expression parser
ValidCalendar == {"daily", "Mon *-*-* 03:00:00"}
calendar(w, expr) ==
    IF w.exc # 0 THEN w
    ELSE LET rc == IF <<"calendar", NoUnit>> \in w.faults THEN w.fcode
                   ELSE IF expr \in ValidCalendar THEN 0 ELSE 1 IN
         [w EXCEPT !.calls = Append(@, <<"calendar", NoUnit, rc>>),
                   !.trace = Append(@, <<"calendar", NoUnit>>), !.exc = rc]

\* the cron branch without the call of the calendar parser
RECURSIVE OnCalendar_unchecked(_, _, _)
OnCalendar_unchecked(w, crons, tpl) ==
    IF crons = <<>> \/ w.exc # 0 THEN [w EXCEPT !.text = tpl]
    ELSE OnCalendar_unchecked(w, Tail(crons), Append(tpl, <<"OnCalendar=", Head(crons)>>))

RECURSIVE OnCalendar(_, _, _)
OnCalendar(w, crons, tpl) ==
    IF crons = <<>> \/ w.exc # 0 THEN [w EXCEPT !.text = tpl]
    ELSE OnCalendar(calendar(w, Head(crons)), Tail(crons),
                    Append(tpl, <<"OnCalendar=", Head(crons)>>))

\* SystemD.timer_template: w.text is the timer text, NoneText for None
timer_template(w, c, s) ==
    LET sv == c.services[s] IN
    IF w.exc # 0 THEN w
    ELSE IF sv.type \notin {"periodic", "cron"} THEN [w EXCEPT !.text = NoneText]
    ELSE LET head == << <<"# created by control.py">>, Marker(c), <<>>, <<"[Unit]">>,
                        <<"Description=", c.name, "-", s>>, <<>>, <<"[Timer]">> >>
                   \o Opt(sv.interval # None /\ sv.type = "periodic",
                          << <<"OnActiveSec=", IF sv.first_interval # None
                                               THEN sv.first_interval ELSE sv.interval>>,
                             <<"OnUnitActiveSec=", sv.interval>> >>)
             w1 == IF sv.cron # <<None>> /\ sv.type = "cron"
                   THEN OnCalendar(w, sv.cron, head)
                   ELSE [w EXCEPT !.text = head]
         IN IF w1.exc # 0 THEN w1
            ELSE [w1 EXCEPT !.text = @
                    \o Opt(sv.random_delay # None, << <<"RandomizedDelaySec=", sv.random_delay>> >>)
                    \o Opt(sv.systemd_timer # NoneText, sv.systemd_timer)
                    \o << <<>>, <<"[Install]">>, <<"WantedBy=timers.target">> >>]


(***************************************************************************)
(* Lifecycle State Machine (class SystemD)                                 *)
(***************************************************************************)
\* is_started that takes 3 for "not active" and every other code for an error
is_started_three_only(w, c, s) ==
    IF w.exc # 0 THEN w
    ELSE LET w1 == run(w, "is-active", Unit(c, s, "service")) IN
         IF w1.exc = 0 THEN [w1 EXCEPT !.ret = TRUE]
         ELSE IF w1.exc = 3 THEN [w1 EXCEPT !.exc = 0, !.ret = FALSE]
         ELSE w1

\* SystemD.is_started: w.ret is the value returned
is_started(w, c, s) ==
    IF w.exc # 0 THEN w
    ELSE LET w1 == run(w, "is-active", Unit(c, s, "service")) IN
         IF w1.exc = 0 THEN [w1 EXCEPT !.ret = TRUE]
         ELSE IF w1.exc \in {3, 4} THEN [w1 EXCEPT !.exc = 0, !.ret = FALSE]
         ELSE w1

\* is_enabled that asks the Supervisor about the service unit of every service
\* that has no timer
is_enabled_asks_untyped(w, c, s) ==
    IF w.exc # 0 THEN w
    ELSE LET type == c.services[s].type
             w1 == IF type \in {"periodic", "cron"}
                   THEN run(w, "is-enabled", Unit(c, s, "timer"))
                   ELSE run(w, "is-enabled", Unit(c, s, "service"))
         IN IF w1.exc = 0 THEN [w1 EXCEPT !.ret = TRUE]
            ELSE IF w1.exc = 1 THEN [w1 EXCEPT !.exc = 0, !.ret = FALSE]
            ELSE w1

\* SystemD.is_enabled: w.ret is the value returned
is_enabled(w, c, s) ==
    IF w.exc # 0 THEN w
    ELSE LET type == c.services[s].type
             w1 == IF type = "daemon" THEN run(w, "is-enabled", Unit(c, s, "service"))
                   ELSE IF type \in {"periodic", "cron"}
                        THEN run(w, "is-enabled", Unit(c, s, "timer"))
                   ELSE w
         IN IF w1.exc = 0 THEN [w1 EXCEPT !.ret = TRUE]
            ELSE IF w1.exc = 1 THEN [w1 EXCEPT !.exc = 0, !.ret = FALSE]
            ELSE w1

\* SystemD.start
start(w, c, s) ==
    LET w1 == is_started(w, c, s) IN
    IF w1.exc # 0 \/ w1.ret THEN w1
    ELSE LET w2 == run(w1, "start", Unit(c, s, "service"))
             w3 == run(w2, "is-active", Unit(c, s, "service"))
         IN IF w3.exc = 0 THEN w3
            ELSE Caught(run(Caught(w3), "status", Unit(c, s, "service")))

\* stop without the early return on a service that is not active
stop_unguarded(w, c, s) ==
    LET w1 == is_started(w, c, s) IN
    IF w1.exc # 0 THEN w1
    ELSE run(w1, "stop", Unit(c, s, "service"))

\* SystemD.stop
stop(w, c, s) ==
    LET w1 == is_started(w, c, s) IN
    IF w1.exc # 0 \/ ~w1.ret THEN w1
    ELSE run(w1, "stop", Unit(c, s, "service"))

\* SystemD.restart
restart(w, c, s) == run(w, "restart", Unit(c, s, "service"))

\* SystemD.reload
reload(w, c, s) == run(w, "reload", Unit(c, s, "service"))

\* enable that enables the timer and leaves it to the next boot to start it
enable_no_start(w, c, s) ==
    LET w1 == is_enabled(w, c, s)
        type == c.services[s].type
    IN IF w1.exc # 0 \/ w1.ret THEN w1
       ELSE IF type = "daemon" THEN run(w1, "enable", Unit(c, s, "service"))
       ELSE IF type \in {"periodic", "cron"} THEN run(w1, "enable", Unit(c, s, "timer"))
       ELSE w1

\* enable that also starts the service unit of a daemon it has enabled
enable_starts_daemon(w, c, s) ==
    LET w1 == is_enabled(w, c, s)
        type == c.services[s].type
    IN IF w1.exc # 0 \/ w1.ret THEN w1
       ELSE IF type = "daemon"
            THEN run(run(w1, "enable", Unit(c, s, "service")), "start", Unit(c, s, "service"))
       ELSE IF type \in {"periodic", "cron"}
            THEN run(run(w1, "enable", Unit(c, s, "timer")), "start", Unit(c, s, "timer"))
       ELSE w1

\* SystemD.enable
enable(w, c, s) ==
    LET w1 == is_enabled(w, c, s)
        type == c.services[s].type
    IN IF w1.exc # 0 \/ w1.ret THEN w1
       ELSE IF type = "daemon" THEN run(w1, "enable", Unit(c, s, "service"))
       ELSE IF type \in {"periodic", "cron"}
            THEN run(run(w1, "enable", Unit(c, s, "timer")), "start", Unit(c, s, "timer"))
       ELSE w1

\* disable that disables the timer and leaves it running
disable_no_stop(w, c, s) ==
    LET w1 == is_enabled(w, c, s)
        type == c.services[s].type
    IN IF w1.exc # 0 \/ ~w1.ret THEN w1
       ELSE IF type = "daemon" THEN run(w1, "disable", Unit(c, s, "service"))
       ELSE IF type \in {"periodic", "cron"} THEN run(w1, "disable", Unit(c, s, "timer"))
       ELSE w1

\* SystemD.disable
disable(w, c, s) ==
    LET w1 == is_enabled(w, c, s)
        type == c.services[s].type
    IN IF w1.exc # 0 \/ ~w1.ret THEN w1
       ELSE IF type = "daemon" THEN run(w1, "disable", Unit(c, s, "service"))
       ELSE IF type \in {"periodic", "cron"}
            THEN run(run(w1, "stop", Unit(c, s, "timer")), "disable", Unit(c, s, "timer"))
       ELSE w1

\* install that reloads the unit index before it writes the timer unit
install_reload_first(w, c, s) ==
    IF w.exc # 0 THEN w
    ELSE LET w1 == file_write(w, Unit(c, s, "service"), service_template(c, s, w.version))
             w2 == timer_template(run(w1, "daemon-reload", NoUnit), c, s)
             w3 == IF w2.exc = 0 /\ w2.text # NoneText
                   THEN file_write(w2, Unit(c, s, "timer"), w2.text)
                   ELSE w2
         IN enable(w3, c, s)

\* SystemD.install
install(w, c, s) ==
    IF w.exc # 0 THEN w
    ELSE LET w1 == file_write(w, Unit(c, s, "service"), service_template(c, s, w.version))
             w2 == timer_template(w1, c, s)
             w3 == IF w2.exc = 0 /\ w2.text # NoneText
                   THEN file_write(w2, Unit(c, s, "timer"), w2.text)
                   ELSE w2
         IN enable(run(w3, "daemon-reload", NoUnit), c, s)

\* uninstall whose stop and disable steps are not wrapped in try/except
uninstall_propagates(w, c, s) ==
    IF w.exc # 0 THEN w
    ELSE LET w2 == disable(stop(w, c, s), c, s) IN
         IF w2.exc # 0 THEN w2
         ELSE file_delete(file_delete(w2, Unit(c, s, "service")), Unit(c, s, "timer"))

\* SystemD.uninstall: both try blocks catch everything
uninstall(w, c, s) ==
    IF w.exc # 0 THEN w
    ELSE LET w1 == Caught(stop(w, c, s))
             w2 == Caught(disable(w1, c, s))
         IN file_delete(file_delete(w2, Unit(c, s, "service")), Unit(c, s, "timer"))

\* the test of uninstall_all on one directory entry: the marker as a substring of
\* the text read (a file that cannot be read is skipped)
owned(w, c, file) ==
    w.files[file] # NoFile /\ TextContains(file_read(w, file), Marker(c))

\* SystemD.uninstall_all over listing, the entries os.listdir returned
RECURSIVE uninstall_all(_, _, _)
uninstall_all(w, c, listing) ==
    IF w.exc # 0 \/ listing = <<>> THEN w
    ELSE LET file == Head(listing) IN
         IF file[3] \notin {"timer", "service"} \/ ~owned(w, c, file)
         THEN uninstall_all(w, c, Tail(listing))
         ELSE LET w1 == Caught(run(w, "stop", file))
                  w2 == Caught(run(w1, "disable", file))
              IN uninstall_all(file_delete(w2, file), c, Tail(listing))


(***************************************************************************)
(* Group/Filter Resolver                                                   *)
(***************************************************************************)
\* The interpreter's stack: a call nested deeper than MaxDepth raises RecursionError.
MaxDepth == 6
RecursionError == <<"RecursionError">>

\* a selector: a list of names, or one name
SelList(names) == [list |-> TRUE, v |-> names]
Sel(name) == [list |-> FALSE, v |-> name]

\* get_services whose list branch adds only the services not yet in the result
RECURSIVE Unique(_, _)
Unique(q, seen) ==
    IF q = <<>> THEN <<>>
    ELSE IF Head(q) \in seen THEN Unique(Tail(q), seen)
    ELSE <<Head(q)>> \o Unique(Tail(q), seen \cup {Head(q)})
RECURSIVE get_services_unique(_, _, _)
get_services_unique(c, filter, depth) ==
    IF depth > MaxDepth THEN RecursionError
    ELSE IF filter.list
         THEN IF filter.v = <<>> THEN <<>>
              ELSE LET item == get_services_unique(c, Sel(Head(filter.v)), depth + 1)
                       rest == IF item = RecursionError THEN RecursionError
                               ELSE get_services_unique(c, SelList(Tail(filter.v)), depth)
                   IN IF rest = RecursionError THEN RecursionError
                      ELSE Unique(item \o rest, {})
    ELSE IF filter.v = "all" THEN c.order
    ELSE IF filter.v \in ServiceNames(c) THEN <<filter.v>>
    ELSE IF filter.v \in DOMAIN c.groups
         THEN get_services_unique(c, SelList(c.groups[filter.v]), depth + 1)
    ELSE <<>>

\* get_services that takes the members of a group as a set of names
RECURSIVE get_services_member_set(_, _, _)
get_services_member_set(c, filter, depth) ==
    IF depth > MaxDepth THEN RecursionError
    ELSE IF filter.list
         THEN IF filter.v = <<>> THEN <<>>
              ELSE LET item == get_services_member_set(c, Sel(Head(filter.v)), depth + 1)
                       rest == IF item = RecursionError THEN RecursionError
                               ELSE get_services_member_set(c, SelList(Tail(filter.v)), depth)
                   IN IF rest = RecursionError THEN RecursionError ELSE item \o rest
    ELSE IF filter.v = "all" THEN c.order
    ELSE IF filter.v \in ServiceNames(c) THEN <<filter.v>>
    ELSE IF filter.v \in DOMAIN c.groups
         THEN get_services_member_set(c, SelList(Unique(c.groups[filter.v], {})), depth + 1)
    ELSE <<>>

\* get_services that answers an unknown name with the (missing) dict entry
RECURSIVE get_services_lookup(_, _, _)
get_services_lookup(c, filter, depth) ==
    IF depth > MaxDepth THEN RecursionError
    ELSE IF filter.list
         THEN IF filter.v = <<>> THEN <<>>
              ELSE LET item == get_services_lookup(c, Sel(Head(filter.v)), depth + 1)
                       rest == IF item = RecursionError THEN RecursionError
                               ELSE get_services_lookup(c, SelList(Tail(filter.v)), depth)
                   IN IF rest = RecursionError THEN RecursionError ELSE item \o rest
    ELSE IF filter.v = "all" THEN c.order
    ELSE IF filter.v \in ServiceNames(c) THEN <<filter.v>>
    ELSE IF filter.v \in DOMAIN c.groups
         THEN get_services_lookup(c, SelList(c.groups[filter.v]), depth + 1)
    ELSE <<None>>

\* get_services that looks a name up among the services before it tests for 'all'
RECURSIVE get_services_names_first(_, _, _)
get_services_names_first(c, filter, depth) ==
    IF depth > MaxDepth THEN RecursionError
    ELSE IF filter.list
         THEN IF filter.v = <<>> THEN <<>>
              ELSE LET item == get_services_names_first(c, Sel(Head(filter.v)), depth + 1)
                       rest == IF item = RecursionError THEN RecursionError
                               ELSE get_services_names_first(c, SelList(Tail(filter.v)), depth)
                   IN IF rest = RecursionError THEN RecursionError ELSE item \o rest
    ELSE IF filter.v \in ServiceNames(c) THEN <<filter.v>>
    ELSE IF filter.v = "all" THEN c.order
    ELSE IF filter.v \in DOMAIN c.groups
         THEN get_services_names_first(c, SelList(c.groups[filter.v]), depth + 1)
    ELSE <<>>

\* Config.get_services; c.order is the insertion order of the dict _services
RECURSIVE get_services(_, _, _)
get_services(c, filter, depth) ==
    IF depth > MaxDepth THEN RecursionError
    ELSE IF filter.list
         THEN IF filter.v = <<>> THEN <<>>
              ELSE LET item == get_services(c, Sel(Head(filter.v)), depth + 1)
                       rest == IF item = RecursionError THEN RecursionError
                               ELSE get_services(c, SelList(Tail(filter.v)), depth)
                   IN IF rest = RecursionError THEN RecursionError ELSE item \o rest
    ELSE IF filter.v = "all" THEN c.order
    ELSE IF filter.v \in ServiceNames(c) THEN <<filter.v>>
    ELSE IF filter.v \in DOMAIN c.groups
         THEN get_services(c, SelList(c.groups[filter.v]), depth + 1)
    ELSE <<>>

\* Config.get_service: the name of the service, None for none
get_service(c, name) == IF name \in ServiceNames(c) THEN name ELSE None

(***************************************************************************)
(* Command implementations (class Commands)                                *)
(***************************************************************************)
Backend(op, w, c, s) ==
    CASE op = "install"   -> install(w, c, s)
      [] op = "uninstall" -> uninstall(w, c, s)
      [] op = "start"     -> start(w, c, s)
      [] op = "stop"      -> stop(w, c, s)
      [] op = "restart"   -> restart(w, c, s)
      [] op = "reload"    -> reload(w, c, s)
      [] op = "enable"    -> enable(w, c, s)
      [] op = "disable"   -> disable(w, c, s)

\* for service in self.config.get_services(list(names)): backend.<op>(service)
RECURSIVE ForEach(_, _, _, _)
ForEach(op, w, c, services) ==
    IF w.exc # 0 \/ services = <<>> THEN w
    ELSE ForEach(op, Backend(op, [w EXCEPT !.visited = Append(@, Head(services))],
                             c, Head(services)),
                 c, Tail(services))

\* the loop of a batch command; an exception of the resolver is exc = -1
Batch(op, w, c, names) ==
    LET services == get_services(c, SelList(names), 0) IN
    IF w.exc # 0 THEN w
    ELSE IF services = RecursionError THEN [w EXCEPT !.exc = -1]
    ELSE ForEach(op, w, c, services)

cmd_install(w, c, names) == Batch("install", w, c, names)
cmd_uninstall(w, c, names, listing) ==
    Batch("uninstall", IF Len(names) = 0 THEN uninstall_all(w, c, listing) ELSE w, c, names)
cmd_start(w, c, names) == Batch("start", w, c, names)
cmd_stop(w, c, names) == Batch("stop", w, c, names)
cmd_restart(w, c, names) == Batch("restart", w, c, names)
cmd_reload(w, c, names) == Batch("reload", w, c, names)
cmd_enable(w, c, names) == Batch("enable", w, c, names)
cmd_disable(w, c, names) == Batch("disable", w, c, names)

\* Commands.is_started and Commands.is_enabled return None: the value the backend
\* returned is dropped
cmd_is_started(w, c, name) ==
    IF get_service(c, name) # None
    THEN [is_started(w, c, get_service(c, name)) EXCEPT !.ret = FALSE]
    ELSE w
cmd_is_enabled(w, c, name) ==
    IF get_service(c, name) # None
    THEN [is_enabled(w, c, get_service(c, name)) EXCEPT !.ret = FALSE]
    ELSE w

\* Python's order of str: by code point, position by position, a proper prefix first
CodePoints ==
    ("all" :> <<97, 108, 108>>) @@ ("api" :> <<97, 112, 105>>)
    @@ ("svc" :> <<115, 118, 99>>)
    @@ ("job" :> <<106, 111, 98>>) @@ ("web" :> <<119, 101, 98>>)
RECURSIVE LexLess(_, _)
LexLess(x, y) ==
    IF y = <<>> THEN FALSE
    ELSE IF x = <<>> THEN TRUE
    ELSE IF Head(x) # Head(y) THEN Head(x) < Head(y)
    ELSE LexLess(Tail(x), Tail(y))
NameLess(a, b) == LexLess(CodePoints[a], CodePoints[b])

\* sorted(services, key=lambda i: i.name): stable, ascending
RECURSIVE Insert(_, _)
Insert(q, s) ==
    IF q = <<>> THEN <<s>>
    ELSE IF NameLess(s, Head(q)) THEN <<s>> \o q
    ELSE <<Head(q)>> \o Insert(Tail(q), s)
RECURSIVE sorted(_)
sorted(q) == IF q = <<>> THEN <<>> ELSE Insert(sorted(SubSeq(q, 1, Len(q) - 1)), q[Len(q)])

\* one line of status: is_enabled, then is_started, then the line is printed, then
\* with --full 'systemctl status' whose failure is ignored
status_line(w, c, s, full) ==
    LET w0 == is_enabled([w EXCEPT !.visited = Append(@, s)], c, s)
        w1 == is_started(w0, c, s)
        w2 == IF w1.exc # 0 THEN w1
              ELSE [w1 EXCEPT !.out = Append(@, <<s, IF w0.ret THEN "enabled" ELSE "disabled",
                                                  IF w1.ret THEN "running" ELSE "stopped">>)]
    IN IF w2.exc = 0 /\ full THEN Caught(run(w2, "status", Unit(c, s, "service"))) ELSE w2
RECURSIVE StatusEach(_, _, _, _)
StatusEach(w, c, services, full) ==
    IF w.exc # 0 \/ services = <<>> THEN w
    ELSE StatusEach(status_line(w, c, Head(services), full), c, Tail(services), full)

\* the selector of status: the names given, 'all' when none is
StatusFilter(names) == IF names # <<>> THEN SelList(names) ELSE Sel("all")

\* status without the sort: the services in the resolver's order
cmd_status_unsorted(w, c, names, full) ==
    LET services == get_services(c, StatusFilter(names), 0) IN
    IF services = RecursionError THEN [w EXCEPT !.exc = -1]
    ELSE StatusEach(w, c, services, full)

\* Commands.status
cmd_status(w, c, names, full) ==
    LET services == get_services(c, StatusFilter(names), 0) IN
    IF services = RecursionError THEN [w EXCEPT !.exc = -1]
    ELSE StatusEach(w, c, sorted(services), full)

\* the values of a dict filled with lines[i] under the key lines[i][1], one after the
\* other: a key keeps the place of its first assignment and the value of its last
dict_values(lines) ==
    LET keys == SelectSeq([i \in DOMAIN lines |-> i],
                          LAMBDA i : \A j \in 1..(i - 1) : lines[j][1] # lines[i][1])
        value(i) == lines[CHOOSE k \in DOMAIN lines :
                              /\ lines[k][1] = lines[i][1]
                              /\ \A j \in (k + 1)..Len(lines) : lines[j][1] # lines[i][1]]
    IN [n \in DOMAIN keys |-> value(keys[n])]

\* Commands.status_json: the entries are collected in a dict keyed by the service's
\* name and printed when the loop has ended
cmd_status_json(w, c, names) ==
    LET services == get_services(c, StatusFilter(names), 0) IN
    IF services = RecursionError THEN [w EXCEPT !.exc = -1]
    ELSE LET w1 == StatusEach(w, c, sorted(services), FALSE) IN
         [w1 EXCEPT !.out = IF w1.exc # 0 THEN <<>> ELSE dict_values(@)]

\* Commands.log without --follow: journalctl -u <unit> for one service after the other
RECURSIVE LogEach(_, _, _)
LogEach(w, c, services) ==
    IF w.exc # 0 \/ services = <<>> THEN w
    ELSE LogEach(run([w EXCEPT !.visited = Append(@, Head(services))], "journal",
                     Unit(c, Head(services), "service")),
                 c, Tail(services))
cmd_log(w, c, names) ==
    LET services == get_services(c, SelList(names), 0) IN
    IF services = RecursionError THEN [w EXCEPT !.exc = -1]
    ELSE LogEach(w, c, services)

\* cli.py: the process exits 0 when the command returns and 1 when an exception
\* leaves it
exit_status(w) == IF w.exc # 0 THEN 1 ELSE 0

(***************************************************************************)
(* Inputs of an invocation                                                 *)
(***************************************************************************)
\* At most MaxFaults of the invocations an operation can make exit abnormally.
MaxFaults == 2
\* The exit code of an invocation that fails: 1 is systemctl's generic failure (and
\* the "not enabled" answer of is-enabled), 4 its "no such unit" (an answer of is-active).
FaultCodes == {1, 4}

Bounded(S) == {V \in SUBSET S : Cardinality(V) <= MaxFaults}

\* the Supervisor invocations each operation can make
CallsOf(op, c, s) ==
    LET sv == Unit(c, s, "service")
        tm == Unit(c, s, "timer")
        en == IF c.services[s].type = "daemon" THEN sv ELSE tm
    IN CASE op = "start"     -> {<<"is-active", sv>>, <<"start", sv>>, <<"status", sv>>}
         [] op = "stop"      -> {<<"is-active", sv>>, <<"stop", sv>>}
         [] op = "restart"   -> {<<"restart", sv>>}
         [] op = "reload"    -> {<<"reload", sv>>}
         [] op = "enable"    -> {<<"is-enabled", en>>, <<"enable", en>>, <<"start", tm>>}
         [] op = "disable"   -> {<<"is-enabled", en>>, <<"disable", en>>, <<"stop", tm>>}
         [] op = "install"   -> {<<"calendar", NoUnit>>, <<"daemon-reload", NoUnit>>,
                                 <<"is-enabled", en>>, <<"enable", en>>, <<"start", tm>>}
         [] op = "uninstall" -> {<<"is-active", sv>>, <<"stop", sv>>, <<"is-enabled", en>>,
                                 <<"disable", en>>, <<"stop", tm>>}
         [] op = "is-started" -> {<<"is-active", sv>>}
         [] op = "is-enabled" -> {<<"is-enabled", en>>}
         [] op = "status"    -> {<<"is-enabled", en>>, <<"is-active", sv>>, <<"status", sv>>}
         [] op = "log"       -> {<<"journal", sv>>}

\* one failing invocation among those a command over names can make, or none
OneFault(op, c, names) ==
    LET services == get_services(c, SelList(names), 0)
        all == UNION {CallsOf(op, c, services[i]) : i \in DOMAIN services}
    IN {{}} \cup {{f} : f \in all}

\* the names given on the command line: at most MaxNames different ones among the
\* manifest's services and 'all'
MaxNames == 2
NameLists(c) ==
    LET N == ServiceNames(c) \cup {"all"} IN
    UNION {{q \in [1..n -> N] : \A i, j \in 1..n : q[i] = q[j] => i = j} : n \in 0..MaxNames}

\* os.listdir returns the entries in an order the file system chooses
Reverse(q) == [i \in DOMAIN q |-> q[Len(q) + 1 - i]]
UnitSeq ==
    << Unit(CfgA, "web", "service"), Unit(CfgA, "web", "timer"),
       Unit(CfgA, "job", "service"), Unit(CfgA, "job", "timer"),
       Unit(CfgB, "api", "service"), Unit(CfgB, "api", "timer") >>
ListOrders == {UnitSeq, Reverse(UnitSeq)}
IsPresent(u) == files[u] # NoFile
listdir(order) == SelectSeq(order, IsPresent)

(***************************************************************************)
(* State machine: one invocation at a time                                 *)
(***************************************************************************)
NoLast ==
    [op |-> "none", cfg |-> "", svc |-> "", names |-> <<>>,
     calls |-> <<>>, written |-> <<>>, deleted |-> <<>>, visited |-> <<>>,
     trace |-> <<>>, out |-> <<>>, exc |-> 0, ret |-> FALSE, status |-> 0, faulted |-> FALSE]
NoProcs == [cmd |-> "none"]
NoLoad == [pc |-> "none"]
NoResolve == [cfg |-> [order |-> <<>>, groups |-> <<>>], filter |-> Sel(None),
              result |-> <<>>, pc |-> "off"]

Init ==
    /\ files = [u \in Units |-> NoFile]
    /\ active = {}
    /\ enabled = {}
    /\ version \in Versions
    /\ pc = "idle"
    /\ last = NoLast
    /\ rs = NoResolve
    /\ ps = NoProcs
    /\ ld = NoLoad

Now(faults, fcode) == World(files, active, enabled, version, faults, fcode)

\* the invocation returns or raises, and the process ends
Returns(op, c, s, names, w) ==
    /\ files' = w.files
    /\ active' = w.active
    /\ enabled' = w.enabled
    /\ pc' = "exited"
    /\ last' = [op |-> op, cfg |-> c.name, svc |-> s, names |-> names,
                calls |-> w.calls, written |-> w.written, deleted |-> w.deleted,
                visited |-> w.visited, trace |-> w.trace, out |-> w.out,
                exc |-> w.exc, ret |-> w.ret, status |-> exit_status(w),
                faulted |-> \E i \in DOMAIN w.calls :
                               <<w.calls[i][1], w.calls[i][2]>> \in w.faults]
    /\ UNCHANGED <<version, rs, ps, ld>>

\* The backend operations on one service of a manifest of M.
Install(M) ==
    \E c \in M : \E s \in ServiceNames(c) :
    \E F \in Bounded(CallsOf("install", c, s)), code \in FaultCodes :
        pc = "idle" /\ Returns("install", c, s, <<>>, install(Now(F, code), c, s))

Uninstall(M) ==
    \E c \in M : \E s \in ServiceNames(c) :
    \E F \in Bounded(CallsOf("uninstall", c, s)), code \in FaultCodes :
        pc = "idle" /\ Returns("uninstall", c, s, <<>>, uninstall(Now(F, code), c, s))

UninstallAll(M) ==
    \E c \in M, order \in ListOrders :
    \E V \in SUBSET {"stop", "disable"} :
        pc = "idle" /\ Returns("uninstall_all", c, "", <<>>,
                               uninstall_all(Now(V \X Units, 1), c, listdir(order)))

Start(M) ==
    \E c \in M : \E s \in ServiceNames(c) :
    \E F \in Bounded(CallsOf("start", c, s)), code \in FaultCodes :
        pc = "idle" /\ Returns("start", c, s, <<>>, start(Now(F, code), c, s))

Stop(M) ==
    \E c \in M : \E s \in ServiceNames(c) :
    \E F \in Bounded(CallsOf("stop", c, s)), code \in FaultCodes :
        pc = "idle" /\ Returns("stop", c, s, <<>>, stop(Now(F, code), c, s))

Restart(M) ==
    \E c \in M : \E s \in ServiceNames(c) :
    \E F \in Bounded(CallsOf("restart", c, s)), code \in FaultCodes :
        pc = "idle" /\ Returns("restart", c, s, <<>>, restart(Now(F, code), c, s))

Reload(M) ==
    \E c \in M : \E s \in ServiceNames(c) :
    \E F \in Bounded(CallsOf("reload", c, s)), code \in FaultCodes :
        pc = "idle" /\ Returns("reload", c, s, <<>>, reload(Now(F, code), c, s))

Enable(M) ==
    \E c \in M : \E s \in ServiceNames(c) :
    \E F \in Bounded(CallsOf("enable", c, s)), code \in FaultCodes :
        pc = "idle" /\ Returns("enable", c, s, <<>>, enable(Now(F, code), c, s))

Disable(M) ==
    \E c \in M : \E s \in ServiceNames(c) :
    \E F \in Bounded(CallsOf("disable", c, s)), code \in FaultCodes :
        pc = "idle" /\ Returns("disable", c, s, <<>>, disable(Now(F, code), c, s))

\* the next invocation starts from the unit directory and Supervisor state left behind
Exit ==
    /\ pc = "exited"
    /\ pc' = "idle"
    /\ last' = NoLast
    /\ UNCHANGED <<files, active, enabled, version, rs, ps, ld>>

\* The Supervisor on its own: a loaded unit starts or ends (a timer elapses, a
\* process exits, an operator runs systemctl start or stop).
UnitRuns ==
    \E u \in Units :
        /\ pc = "idle"
        /\ files[u] # NoFile
        /\ active' = IF u \in active THEN active \ {u} ELSE active \cup {u}
        /\ UNCHANGED <<files, enabled, version, pc, last, rs, ps, ld>>

\* The Supervisor on its own: an operator runs systemctl enable or disable on a unit
\* that has an [Install] section.
UnitEnabled ==
    \E u \in Units :
        /\ pc = "idle"
        /\ files[u] # NoFile
        /\ \E i \in DOMAIN files[u] : files[u][i] = <<"[Install]">>
        /\ enabled' = IF u \in enabled THEN enabled \ {u} ELSE enabled \cup {u}
        /\ UNCHANGED <<files, active, version, pc, last, rs, ps, ld>>

\* The unit directory is the administrator's too: a unit file is removed by hand
\* (or an uninstall was interrupted between its two deletions).
UnitFileRemoved ==
    \E u \in Units :
        /\ pc = "idle"
        /\ files[u] # NoFile
        /\ files' = [files EXCEPT ![u] = NoFile]
        /\ UNCHANGED <<active, enabled, version, pc, last, rs, ps, ld>>

\* One host, one manifest: the operations of the backend.
Next ==
    \/ Install({CfgA}) \/ Uninstall({CfgA}) \/ UninstallAll({CfgA})
    \/ Start({CfgA}) \/ Stop({CfgA}) \/ Restart({CfgA}) \/ Reload({CfgA})
    \/ Enable({CfgA}) \/ Disable({CfgA})
    \/ Exit \/ UnitRuns \/ UnitEnabled \/ UnitFileRemoved

Spec == Init /\ [][Next]_vars

\* One host, two manifests: installing and removing units.
NextOwn ==
    \/ Install(Manifests) \/ Uninstall(Manifests) \/ UninstallAll(Manifests)
    \/ Exit \/ UnitRuns \/ UnitEnabled

SpecOwn == Init /\ [][NextOwn]_vars


(***************************************************************************)
(* State machine of the command line: one command per process              *)
(***************************************************************************)
Given(c) == NameLists(c) \ {<<>>}

CmdInstall(M) ==
    \E c \in M : \E names \in Given(c) :
    \E F \in OneFault("install", c, names), code \in FaultCodes :
        pc = "idle" /\ Returns("cmd_install", c, "", names, cmd_install(Now(F, code), c, names))

CmdUninstall(M) ==
    \E c \in M : \E names \in NameLists(c), order \in ListOrders :
    \E F \in IF names = <<>> THEN {V \X Units : V \in SUBSET {"stop", "disable"}}
                             ELSE OneFault("uninstall", c, names),
       code \in FaultCodes :
        pc = "idle" /\ Returns("cmd_uninstall", c, "", names,
                               cmd_uninstall(Now(F, code), c, names, listdir(order)))

CmdStart(M) ==
    \E c \in M : \E names \in Given(c) :
    \E F \in OneFault("start", c, names), code \in FaultCodes :
        pc = "idle" /\ Returns("cmd_start", c, "", names, cmd_start(Now(F, code), c, names))

CmdStop(M) ==
    \E c \in M : \E names \in Given(c) :
    \E F \in OneFault("stop", c, names), code \in FaultCodes :
        pc = "idle" /\ Returns("cmd_stop", c, "", names, cmd_stop(Now(F, code), c, names))

CmdRestart(M) ==
    \E c \in M : \E names \in Given(c) :
    \E F \in OneFault("restart", c, names), code \in FaultCodes :
        pc = "idle" /\ Returns("cmd_restart", c, "", names, cmd_restart(Now(F, code), c, names))

CmdReload(M) ==
    \E c \in M : \E names \in Given(c) :
    \E F \in OneFault("reload", c, names), code \in FaultCodes :
        pc = "idle" /\ Returns("cmd_reload", c, "", names, cmd_reload(Now(F, code), c, names))

CmdEnable(M) ==
    \E c \in M : \E names \in Given(c) :
    \E F \in OneFault("enable", c, names), code \in FaultCodes :
        pc = "idle" /\ Returns("cmd_enable", c, "", names, cmd_enable(Now(F, code), c, names))

CmdDisable(M) ==
    \E c \in M : \E names \in Given(c) :
    \E F \in OneFault("disable", c, names), code \in FaultCodes :
        pc = "idle" /\ Returns("cmd_disable", c, "", names, cmd_disable(Now(F, code), c, names))

CmdIsStarted(M) ==
    \E c \in M : \E names \in [1..1 -> ServiceNames(c) \cup {"all"}] :
    \E F \in OneFault("is-started", c, names), code \in FaultCodes :
        pc = "idle" /\ Returns("cmd_is_started", c, names[1], names,
                               cmd_is_started(Now(F, code), c, names[1]))

CmdIsEnabled(M) ==
    \E c \in M : \E names \in [1..1 -> ServiceNames(c) \cup {"all"}] :
    \E F \in OneFault("is-enabled", c, names), code \in FaultCodes :
        pc = "idle" /\ Returns("cmd_is_enabled", c, names[1], names,
                               cmd_is_enabled(Now(F, code), c, names[1]))

CmdStatus(M) ==
    \E c \in M : \E names \in NameLists(c), full \in BOOLEAN :
    \E F \in OneFault("status", c, IF names = <<>> THEN <<"all">> ELSE names),
       code \in FaultCodes :
        pc = "idle" /\ Returns("cmd_status", c, "", names,
                               cmd_status(Now(F, code), c, names, full))

CmdStatusJson(M) ==
    \E c \in M : \E names \in NameLists(c) :
    \E F \in OneFault("status", c, IF names = <<>> THEN <<"all">> ELSE names),
       code \in FaultCodes :
        pc = "idle" /\ Returns("cmd_status_json", c, "", names,
                               cmd_status_json(Now(F, code), c, names))

CmdLog(M) ==
    \E c \in M : \E names \in NameLists(c) :
    \E F \in OneFault("log", c, names), code \in FaultCodes :
        pc = "idle" /\ Returns("cmd_log", c, "", names, cmd_log(Now(F, code), c, names))

NextCmd ==
    \/ CmdInstall({CfgA}) \/ CmdUninstall({CfgA})
    \/ CmdStart({CfgA}) \/ CmdStop({CfgA}) \/ CmdRestart({CfgA}) \/ CmdReload({CfgA})
    \/ CmdEnable({CfgA}) \/ CmdDisable({CfgA})
    \/ CmdIsStarted({CfgA}) \/ CmdIsEnabled({CfgA})
    \/ CmdStatus({CfgA}) \/ CmdStatusJson({CfgA}) \/ CmdLog({CfgA})
    \/ Exit \/ UnitRuns \/ UnitEnabled

\* the host of the command line runs the newer systemd
InitCmd == Init /\ version > 244

SpecCmd == InitCmd /\ [][NextCmd]_vars


(***************************************************************************)
(* State machine of one service across revisions of its manifest: every    *)
(* process loads control.yaml as it is at that time (ld.cfg), the          *)
(* administrator edits it between invocations, and the unit directory and  *)
(* the Supervisor keep what earlier invocations left.                      *)
(***************************************************************************)
\* the exit codes a probe may see from a failing 'systemctl is-active / is-enabled'
ProbeCodes == 1..5

IsStarted(M) ==
    \E c \in M : \E s \in ServiceNames(c) :
    \E F \in SUBSET CallsOf("is-started", c, s), code \in ProbeCodes :
        pc = "idle" /\ Returns("is_started", c, s, <<>>, is_started(Now(F, code), c, s))

IsEnabled(M) ==
    \E c \in M : \E s \in ServiceNames(c) :
    \E F \in SUBSET CallsOf("is-enabled", c, s), code \in ProbeCodes :
        pc = "idle" /\ Returns("is_enabled", c, s, <<>>, is_enabled(Now(F, code), c, s))

\* control.yaml is edited: the next process loads another revision
ManifestEdited ==
    \E c \in Revisions :
        /\ pc = "idle"
        /\ c # ld.cfg
        /\ ld' = [ld EXCEPT !.cfg = c]
        /\ UNCHANGED <<files, active, enabled, version, pc, last, rs, ps>>

InitTypes ==
    /\ files = [u \in Units |-> NoFile]
    /\ active = {}
    /\ enabled = {}
    /\ version = 245
    /\ pc = "idle"
    /\ last = NoLast
    /\ rs = NoResolve
    /\ ps = NoProcs
    /\ ld \in {[pc |-> "manifest", cfg |-> c] : c \in Revisions}

NextTypes ==
    \/ Install({ld.cfg}) \/ Uninstall({ld.cfg})
    \/ Enable({ld.cfg}) \/ Disable({ld.cfg})
    \/ IsStarted({ld.cfg}) \/ IsEnabled({ld.cfg})
    \/ CmdStatus({ld.cfg})
    \/ ManifestEdited
    \/ Exit \/ UnitRuns \/ UnitEnabled

SpecTypes == InitTypes /\ [][NextTypes]_vars


(***************************************************************************)
(* The resolver alone: get_services applied to a selector, over manifests  *)
(* of at most MaxServices services and two groups of at most MaxLen        *)
(* members.  A service may be named 'all'; "x" is declared nowhere.        *)
(***************************************************************************)
MaxServices == 2
MaxLen == 2

Lists(S, n) == UNION {[1..k -> S] : k \in 0..n}
Orders == {q \in Lists({"a", "b", "all"}, MaxServices) :
             \A i, j \in DOMAIN q : q[i] = q[j] => i = j}
GroupMaps ==
    UNION {[D -> Lists({"a", "b", "g", "h", "x"}, MaxLen)] : D \in SUBSET {"g", "h"}}
WellFormed(gm) ==
    /\ "g" \in DOMAIN gm => \A i \in DOMAIN gm["g"] : gm["g"][i] \in {"a", "g", "h"}
    /\ "h" \in DOMAIN gm => \A i \in DOMAIN gm["h"] : gm["h"][i] \in {"b", "g", "x"}
ResolveConfigs == {[order |-> o, groups |-> gm] : o \in Orders, gm \in {m \in GroupMaps : WellFormed(m)}}
Selectors ==
    {Sel(n) : n \in {"a", "b", "all", "g", "h", "x"}}
    \cup {SelList(q) : q \in Lists({"a", "g", "x"}, MaxLen)}

InitResolve ==
    /\ files = [u \in Units |-> NoFile]
    /\ active = {}
    /\ enabled = {}
    /\ version = 245    \* get_services never reads the systemd version
    /\ pc = "idle"
    /\ last = NoLast
    /\ rs \in {[cfg |-> c, filter |-> Sel(None), result |-> <<>>, pc |-> "loaded"] :
                 c \in ResolveConfigs}
    /\ ps = NoProcs
    /\ ld = NoLoad

Resolve ==
    \E f \in Selectors :
        /\ rs.pc = "loaded"
        /\ rs' = [rs EXCEPT !.filter = f, !.result = get_services(rs.cfg, f, 0),
                            !.pc = "returned"]
        /\ UNCHANGED <<files, active, enabled, version, pc, last, ps, ld>>

NextResolve == Resolve

SpecResolve == InitResolve /\ [][NextResolve]_vars


(***************************************************************************)
(* Commands.log: 'log --follow' spawns one 'journalctl -f -u <unit>' per   *)
(* selected service, waits for procs[0], terminates and joins all of them; *)
(* without --follow it runs journalctl for one service after the other.    *)
(* A tail is "running", "exited" (not yet waited for) or "reaped".         *)
(***************************************************************************)
\* for service in get_services(list(names)): procs.append(subprocess.Popen(args))
LogFollow(M) ==
    \E c \in M : \E names \in NameLists(c) :
        /\ pc = "idle"
        /\ get_services(c, SelList(names), 0) # RecursionError
        /\ pc' = "running"
        /\ ps' = [cmd |-> "log", cfg |-> c.name,
                  services |-> get_services(c, SelList(names), 0),
                  procs |-> <<>>, sigterm |-> {}, at |-> "spawn", i |-> 1]
        /\ UNCHANGED <<files, active, enabled, version, last, rs, ld>>

LogSpawn ==
    /\ pc = "running" /\ ps.cmd = "log" /\ ps.at = "spawn"
    /\ ps' = IF ps.i <= Len(ps.services)
             THEN [ps EXCEPT !.procs = Append(@, "running"), !.i = @ + 1]
             ELSE [ps EXCEPT !.at = IF Len(ps.procs) > 0 THEN "wait" ELSE "terminate",
                             !.i = 1]
    /\ UNCHANGED <<files, active, enabled, version, pc, last, rs, ld>>

\* procs[0].wait(): returns once the first tail spawned has exited
LogWait ==
    /\ pc = "running" /\ ps.cmd = "log" /\ ps.at = "wait"
    /\ ps.procs[1] = "exited"
    /\ ps' = [ps EXCEPT !.procs[1] = "reaped", !.at = "terminate", !.i = 1]
    /\ UNCHANGED <<files, active, enabled, version, pc, last, rs, ld>>

\* for proc in procs: proc.terminate() (no signal to a process already waited for)
LogTerminate ==
    /\ pc = "running" /\ ps.cmd = "log" /\ ps.at = "terminate"
    /\ ps' = IF ps.i <= Len(ps.procs)
             THEN [ps EXCEPT !.sigterm = IF ps.procs[ps.i] = "reaped" THEN @
                                         ELSE @ \cup {ps.i},
                             !.i = @ + 1]
             ELSE [ps EXCEPT !.at = "join", !.i = 1]
    /\ UNCHANGED <<files, active, enabled, version, pc, last, rs, ld>>

\* for proc in procs: proc.wait(); then the command returns
LogJoin ==
    /\ pc = "running" /\ ps.cmd = "log" /\ ps.at = "join"
    /\ IF ps.i <= Len(ps.procs)
       THEN /\ ps.procs[ps.i] # "running"
            /\ ps' = [ps EXCEPT !.procs[ps.i] = "reaped", !.i = @ + 1]
            /\ UNCHANGED pc
       ELSE /\ ps' = [ps EXCEPT !.at = "done"]
            /\ pc' = "exited"
    /\ UNCHANGED <<files, active, enabled, version, last, rs, ld>>

\* a tail ends by itself (journalctl fails, 'sudo -n' is refused, it is killed)
TailExits ==
    /\ pc = "running" /\ ps.cmd = "log"
    /\ \E k \in DOMAIN ps.procs :
          /\ ps.procs[k] = "running"
          /\ ps' = [ps EXCEPT !.procs[k] = "exited"]
    /\ UNCHANGED <<files, active, enabled, version, pc, last, rs, ld>>

\* journalctl ends on SIGTERM
TailTerminated ==
    /\ pc = "running" /\ ps.cmd = "log"
    /\ \E k \in ps.sigterm :
          /\ ps.procs[k] = "running"
          /\ ps' = [ps EXCEPT !.procs[k] = "exited"]
    /\ UNCHANGED <<files, active, enabled, version, pc, last, rs, ld>>

LogStep == LogSpawn \/ LogWait \/ LogTerminate \/ LogJoin

NextLog == LogFollow({CfgA}) \/ LogStep \/ TailExits \/ TailTerminated \/ Exit

SpecLog == Init /\ [][NextLog]_vars


(***************************************************************************)
(* Commands.run: the service's argv runs as a child in the foreground; the *)
(* parent waits for it, and on KeyboardInterrupt terminates it and waits   *)
(* again.  The child is "alive", "exited" (not yet waited for) or "reaped";*)
(* a child may ignore SIGINT and SIGTERM (undead.py).                      *)
(***************************************************************************)
\* At most MaxInterrupts interrupts reach one command.
MaxInterrupts == 3
SIGTERM == 15
SIGINT == 2
\* exit status of a process ended by sys.exit(n), as the shell sees it
ExitStatus(n) == n % 256

\* service = get_service(name); if not service: return; proc = subprocess.Popen(...)
RunStart(M) ==
    \E c \in M : \E name \in ServiceNames(c) \cup {"x"}, undead \in BOOLEAN :
        /\ pc = "idle"
        /\ IF get_service(c, name) = None
           THEN /\ pc' = "exited"
                /\ ps' = [cmd |-> "run", cfg |-> c.name, svc |-> name, child |-> "none",
                          undead |-> FALSE, sigterm |-> FALSE, code |-> 0,
                          at |-> "exited", interrupts |-> 0, status |-> 0]
           ELSE /\ pc' = "running"
                /\ ps' = [cmd |-> "run", cfg |-> c.name, svc |-> name, child |-> "alive",
                          undead |-> undead, sigterm |-> FALSE, code |-> 0,
                          at |-> "wait", interrupts |-> 0, status |-> 0]
        /\ UNCHANGED <<files, active, enabled, version, last, rs, ld>>

\* exitcode = proc.wait(); sys.exit(exitcode)
RunWait ==
    /\ pc = "running" /\ ps.cmd = "run" /\ ps.at = "wait"
    /\ ps.child \in {"exited", "reaped"}
    /\ ps' = [ps EXCEPT !.child = "reaped", !.at = "exited", !.status = ExitStatus(ps.code)]
    /\ pc' = "exited"
    /\ UNCHANGED <<files, active, enabled, version, last, rs, ld>>

\* the proc.wait() of the except clause returns; the loop goes round
RunHandlerWait ==
    /\ pc = "running" /\ ps.cmd = "run" /\ ps.at = "handler"
    /\ ps.child \in {"exited", "reaped"}
    /\ ps' = [ps EXCEPT !.child = "reaped", !.at = "wait"]
    /\ UNCHANGED <<files, active, enabled, version, pc, last, rs, ld>>

\* KeyboardInterrupt in the parent: inside the try it is caught (proc.terminate(),
\* then proc.wait()); inside the except clause nothing catches it and the parent
\* ends with it
RunInterrupt ==
    /\ pc = "running" /\ ps.cmd = "run"
    /\ ps.interrupts < MaxInterrupts
    /\ IF ps.at = "wait"
       THEN /\ ps' = [ps EXCEPT !.interrupts = @ + 1, !.at = "handler",
                                !.sigterm = @ \/ ps.child # "reaped"]
            /\ UNCHANGED pc
       ELSE /\ ps' = [ps EXCEPT !.interrupts = @ + 1, !.at = "exited",
                                !.status = 128 + SIGINT]
            /\ pc' = "exited"
    /\ UNCHANGED <<files, active, enabled, version, last, rs, ld>>

\* the child ends by itself, with exit code 0 or 1
ChildExits ==
    /\ pc = "running" /\ ps.cmd = "run" /\ ps.child = "alive"
    /\ \E code \in {0, 1} : ps' = [ps EXCEPT !.child = "exited", !.code = code]
    /\ UNCHANGED <<files, active, enabled, version, pc, last, rs, ld>>

\* the child is ended by the SIGTERM of proc.terminate(), unless it ignores it
ChildTerminated ==
    /\ pc = "running" /\ ps.cmd = "run" /\ ps.child = "alive"
    /\ ps.sigterm /\ ~ps.undead
    /\ ps' = [ps EXCEPT !.child = "exited", !.code = -SIGTERM]
    /\ UNCHANGED <<files, active, enabled, version, pc, last, rs, ld>>

NextRun ==
    \/ RunStart(Manifests) \/ RunWait \/ RunHandlerWait \/ RunInterrupt
    \/ ChildExits \/ ChildTerminated \/ Exit

SpecRun == Init /\ [][NextRun]_vars


(***************************************************************************)
(* ExecutableModel.to_executable_args.  A string is a sequence of tokens:  *)
(* "/" separates path components, " " separates the words of 'run', a     *)
(* file name ends in its extension token.  The file system is what the     *)
(* resolution looks at: the command's file, an interpreter of the same     *)
(* name in the working directory, and the interpreters on the search path. *)
(***************************************************************************)
ValueError == <<"ValueError">>
NoPath == <<None>>
Dot == <<".">>
ManifestDir == <<"/", "srv", "/", "app">>
WorkDir == <<"/", "srv", "/", "work">>
ProcessDir == <<"/", "home", "/", "op">>
Interpreters == {<<"node">>, <<"python">>}
CommandNames ==
    {<<"app", ".js">>, <<"tool", ".py">>, <<"run", ".sh">>, <<"node">>,
     <<"bin", "/", "app", ".js">>, <<"/", "opt", "/", "run", ".sh">>}
ArgLists == {<<>>, << <<"--port">> >>}
FileKinds == {"none", "file", "xfile", "dir"}

\* shlex.split on a string without quotes: its words
RECURSIVE shlex_split(_, _)
shlex_split(str, word) ==
    IF str = <<>> THEN (IF word = <<>> THEN <<>> ELSE <<word>>)
    ELSE IF Head(str) = " "
         THEN (IF word = <<>> THEN <<>> ELSE <<word>>) \o shlex_split(Tail(str), <<>>)
    ELSE shlex_split(Tail(str), Append(word, Head(str)))
\* ' '.join(words): the 'run' string of a command line
RECURSIVE Words(_)
Words(argv) ==
    IF argv = <<>> THEN <<>>
    ELSE IF Len(argv) = 1 THEN argv[1]
    ELSE argv[1] \o <<" ">> \o Words(Tail(argv))

isabs(path) == path # <<>> /\ path[1] = "/"
endswith(path, ext) == path # <<>> /\ path[Len(path)] = ext
HasSlash(path) == \E i \in DOMAIN path : path[i] = "/"
\* os.path.join(a, b)
join(a, b) == IF isabs(b) THEN b ELSE a \o <<"/">> \o b
\* the symbolic links of the search path, when the interpreters are installed as links
LinkTarget(path) == <<"/", "opt">> \o SubSeq(path, 4, Len(path))
\* os.path.realpath: absolute (relative to the process's directory), '.' dropped,
\* symbolic links followed
realpath(e, path) ==
    LET a == IF isabs(path) THEN path
             ELSE IF Len(path) >= 2 /\ path[1] = "." /\ path[2] = "/"
                  THEN ProcessDir \o SubSeq(path, 2, Len(path))
             ELSE IF path = Dot THEN ProcessDir
             ELSE ProcessDir \o <<"/">> \o path
    IN IF e.link /\ e.onpath /\ \E n \in Interpreters : a = <<"/", "usr", "/", "bin", "/">> \o n
       THEN LinkTarget(a) ELSE a

\* cwd = os.path.realpath(self.cwd) if self.cwd else base_cwd or '.'
exec_cwd(e) ==
    IF e.cwd # NoPath THEN realpath(e, e.cwd)
    ELSE IF e.base # NoPath THEN e.base ELSE Dot
resolve(e, path) == realpath(e, join(exec_cwd(e), path))

\* what is at an absolute path
Kind(e, path) ==
    IF path = <<"/", "bin", "/", "sh">> THEN "xfile"
    ELSE IF \E n \in Interpreters : path = LinkTarget(<<"/", "usr", "/", "bin", "/">> \o n)
         THEN (IF e.onpath /\ e.link THEN "xfile" ELSE "none")
    ELSE IF \E n \in Interpreters : path = <<"/", "usr", "/", "bin", "/">> \o n
         THEN (IF e.onpath /\ ~e.link THEN "xfile" ELSE "none")
    ELSE IF \E n \in Interpreters : path = resolve(e, n) THEN e.local
    ELSE IF path = resolve(e, e.name) THEN e.kind
    ELSE "none"
access_X_OK(e, path) == Kind(e, path) \in {"xfile", "dir"}
isfile(e, path) == Kind(e, path) \in {"file", "xfile"}
\* which <name>: the executable of that name on the search path, None for none
which(e, name) ==
    IF e.onpath /\ name \in Interpreters THEN <<"/", "usr", "/", "bin", "/">> \o name
    ELSE NoPath

\* ExecutableModel.to_executable_args
to_executable_args(e) ==
    LET a0 == IF e.form = "run" THEN shlex_split(Words(<<e.name>> \o e.args), <<>>)
              ELSE IF e.form = "shell" THEN << <<"/", "bin", "/", "sh">>, <<"-c">>, e.name >>
              ELSE <<e.name>> \o e.args
        a1 == IF ~access_X_OK(e, resolve(e, a0[1])) /\ endswith(a0[1], ".js")
              THEN << <<"node">> >> \o a0 ELSE a0
        a2 == IF ~access_X_OK(e, resolve(e, a1[1])) /\ endswith(a1[1], ".py")
              THEN << <<"python">> >> \o a1 ELSE a1
        a3 == IF ~isfile(e, resolve(e, a2[1])) /\ ~HasSlash(a2[1]) /\ which(e, a2[1]) # NoPath
              THEN [a2 EXCEPT ![1] = which(e, a2[1])] ELSE a2
        a4 == [a3 EXCEPT ![1] = resolve(e, a3[1])]
    IN IF ~isfile(e, a4[1]) THEN ValueError ELSE a4

ExecInputs ==
    [form : {"cmd", "run", "shell"}, name : CommandNames, args : ArgLists,
     cwd : {NoPath, WorkDir}, base : {NoPath, ManifestDir},
     kind : FileKinds, local : {"none", "file", "xfile"},
     onpath : BOOLEAN, link : BOOLEAN]

InitExec ==
    /\ files = [u \in Units |-> NoFile]
    /\ active = {}
    /\ enabled = {}
    /\ version \in Versions
    /\ pc = "idle"
    /\ last = NoLast
    /\ rs = NoResolve
    /\ ps = NoProcs
    /\ ld \in {[pc |-> "model", e |-> e, argv |-> <<>>] : e \in ExecInputs}

\* Service.args
ResolveExecutable ==
    /\ ld.pc = "model"
    /\ ld' = [ld EXCEPT !.pc = "resolved", !.argv = to_executable_args(ld.e)]
    /\ UNCHANGED <<files, active, enabled, version, pc, last, rs, ps>>

NextExec == ResolveExecutable

SpecExec == InitExec /\ [][NextExec]_vars


(***************************************************************************)
(* ConfigModel.apply_env_substitution.  A string is a sequence of          *)
(* characters; env maps names to the values of the manifest (str, int or   *)
(* bool), which normalize_env turns into strings.  The manifest holds the  *)
(* same text in every place a string can stand: a str field, a list        *)
(* element, a dict value and a group member.                               *)
(***************************************************************************)
\* Texts of at most MaxStr characters.
MaxStr == 6
Alphabet == {"{", "}", "a", "b", "u"}
Texts == UNION {[1..n -> Alphabet] : n \in 0..MaxStr}

\* str(val) of normalize_env
Digit(d) == <<"0", "1", "2", "3", "4", "5", "6", "7", "8", "9">>[d + 1]
RECURSIVE str_int(_)
str_int(n) == IF n < 10 THEN <<Digit(n)>> ELSE str_int(n \div 10) \o <<Digit(n % 10)>>
str(val) ==
    CASE val.t = "str"  -> val.v
      [] val.t = "int"  -> str_int(val.n)
      [] val.t = "bool" -> IF val.b THEN <<"T", "r", "u", "e">> ELSE <<"F", "a", "l", "s", "e">>
normalize_env(raw) == [k \in DOMAIN raw |-> str(raw[k])]

EnvValues ==
    {[t |-> "str", v |-> <<"x">>], [t |-> "str", v |-> <<"{", "u", "}">>],
     [t |-> "str", v |-> <<"{", "a", "}">>], [t |-> "int", n |-> 80],
     [t |-> "bool", b |-> TRUE]}
RawEnvs ==
    {<<>>} \cup {(<<"a">> :> v) : v \in EnvValues}
    \cup {(<<"a">> :> [t |-> "str", v |-> <<"{", "b", "}">>]) @@ (<<"b">> :> [t |-> "str", v |-> <<"x">>])}

\* index of the first "}" of data at or after i, 0 for none
RECURSIVE Closing(_, _)
Closing(data, i) ==
    IF i > Len(data) THEN 0 ELSE IF data[i] = "}" THEN i ELSE Closing(data, i + 1)
\* re.findall(r'{[^}]+}', data): the matches from position i on
RECURSIVE findall(_, _)
findall(data, i) ==
    IF i > Len(data) THEN <<>>
    ELSE IF data[i] = "{" /\ Closing(data, i + 1) >= i + 2
         THEN <<SubSeq(data, i, Closing(data, i + 1))>> \o findall(data, Closing(data, i + 1) + 1)
    ELSE findall(data, i + 1)
\* data.replace(old, new): every occurrence, left to right, not overlapping
RECURSIVE replace(_, _, _)
replace(data, old, new) ==
    IF Len(data) < Len(old) THEN data
    ELSE IF SubSeq(data, 1, Len(old)) = old
         THEN new \o replace(SubSeq(data, Len(old) + 1, Len(data)), old, new)
    ELSE <<Head(data)>> \o replace(Tail(data), old, new)

\* the str branch of env_subst: the loop over the matches; r is [data, warnings]
RECURSIVE SubstMatches(_, _, _)
SubstMatches(env, matches, r) ==
    IF matches = <<>> THEN r
    ELSE LET match == Head(matches)
             var_name == SubSeq(match, 2, Len(match) - 1)
         IN SubstMatches(env, Tail(matches),
                IF var_name \in DOMAIN env
                THEN [r EXCEPT !.data = replace(@, match, env[var_name])]
                ELSE [r EXCEPT !.warnings = Append(@, match)])
env_subst_str(env, data) ==
    SubstMatches(env, findall(data, 1), [data |-> data, warnings |-> <<>>])

\* env_subst on the dumped services and on the groups: lists element by element,
\* dicts value by value (keys as they are), anything but a str as it is
apply_env_substitution(m) ==
    LET env == normalize_env(m.env)
        s(text) == env_subst_str(env, text)
    IN [m EXCEPT !.services =
            [n \in DOMAIN @ |->
                [@[n] EXCEPT !.cmd = s(@).data,
                             !.args = [i \in DOMAIN @ |-> s(@[i]).data],
                             !.env = [k \in DOMAIN @ |-> s(@[k]).data]]],
                 !.groups = [g \in DOMAIN @ |-> [i \in DOMAIN @[g] |-> s(@[g][i]).data]],
                 !.warnings = Flatten(
                     [i \in 1..4 |-> s(<<m.services["web"].cmd, m.services["web"].args[1],
                                          m.services["web"].env[<<"K">>],
                                          m.groups[<<"g">>][1]>>[i]).warnings])]

\* cls(**data): the manifest as parsed, one text in every place of a string
Parsed(text, raw) ==
    [env |-> raw,
     services |-> ("web" :> [cmd |-> text, args |-> <<text>>, env |-> (<<"K">> :> text),
                             nofile |-> 1024, syslog |-> FALSE, type |-> "daemon"]),
     groups |-> (<<"g">> :> <<text>>),
     warnings |-> <<>>]

InitSubst ==
    /\ files = [u \in Units |-> NoFile]
    /\ active = {}
    /\ enabled = {}
    /\ version \in Versions
    /\ pc = "idle"
    /\ last = NoLast
    /\ rs = NoResolve
    /\ ps = NoProcs
    /\ ld \in {[pc |-> "parsed", text |-> x, m |-> Parsed(x, raw)] : x \in Texts, raw \in RawEnvs}

\* ConfigModel.load: config.apply_env_substitution()
Substitute ==
    /\ ld.pc = "parsed"
    /\ ld' = [ld EXCEPT !.pc = "loaded", !.m = apply_env_substitution(ld.m)]
    /\ UNCHANGED <<files, active, enabled, version, pc, last, rs, ps>>

NextSubst == Substitute

SpecSubst == InitSubst /\ [][NextSubst]_vars


(***************************************************************************)
(* Properties                                                              *)
(***************************************************************************)
Cfg(name) == CHOOSE c \in Manifests : c.name = name
Sv == Unit(Cfg(last.cfg), last.svc, "service")
Tm == Unit(Cfg(last.cfg), last.svc, "timer")
Returned(op) == pc = "exited" /\ last.op = op
TimerType == last.svc \in ServiceNames(Cfg(last.cfg))
             /\ Cfg(last.cfg).services[last.svc].type \in {"periodic", "cron"}
Issued(verb, unit) == \E i \in DOMAIN last.calls : last.calls[i][1] = verb /\ last.calls[i][2] = unit

\* the timer text install synthesizes when the calendar parser accepts every expression
timer_text(c, s) == timer_template(World(<<>>, {}, {}, 0, {}, 0), c, s).text

\* the marker '# control.yaml=<path>' verbatim and on its own line
HasMarkerLine(text, c) == text # NoFile /\ \E i \in DOMAIN text : text[i] = Marker(c)

\* C1: after install(s) returns, the unit files on disk hold the synthesized text,
\* and an install(s) that finds them so (a second install, nothing changed in
\* between) writes no unit file.
C1_InstallIdempotent ==
    [][ (pc = "idle" /\ pc' = "exited" /\ last'.op = "install" /\ last'.exc = 0) =>
        LET c  == Cfg(last'.cfg)
            s  == last'.svc
            sv == Unit(c, s, "service")
            tm == Unit(c, s, "timer")
            st == service_template(c, s, version)
            tt == timer_text(c, s)
        IN /\ files'[sv] = st
           /\ tt # NoneText => files'[tm] = tt
           /\ (files[sv] = st /\ (tt # NoneText => files[tm] = tt)) => last'.written = <<>>
      ]_vars

\* C2: uninstall_all(A) stops, disables and deletes exactly the unit files that
\* carry A's marker line, and leaves every other unit file as it was.
C2_UninstallAllOwnership ==
    [][ (pc = "idle" /\ pc' = "exited" /\ last'.op = "uninstall_all") =>
        \A u \in Units :
            IF HasMarkerLine(files[u], Cfg(last'.cfg))
            THEN /\ files'[u] = NoFile
                 /\ \E i \in DOMAIN last'.calls : last'.calls[i][1] = "stop" /\ last'.calls[i][2] = u
                 /\ \E i \in DOMAIN last'.calls : last'.calls[i][1] = "disable" /\ last'.calls[i][2] = u
            ELSE /\ files'[u] = files[u]
                 /\ ~\E i \in DOMAIN last'.calls : last'.calls[i][2] = u
      ]_vars

\* C3: stop on a service the Supervisor reports not active, and start on a service
\* it reports active, make the is-active query and no other Supervisor call.
C3_StartStopIdempotent ==
    (/\ pc = "exited"
     /\ last.op \in {"start", "stop"}
     /\ last.calls # <<>>
     /\ last.calls[1][1] = "is-active"
     /\ \/ last.op = "stop" /\ last.calls[1][3] \in {3, 4}
        \/ last.op = "start" /\ last.calls[1][3] = 0)
    => /\ last.calls = << <<"is-active", Sv, last.calls[1][3]>> >>
       /\ last.exc = 0

C3_Witness ==
    /\ Returned("stop")
    /\ last.calls = << <<"is-active", Sv, 3>> >>
    /\ files[Sv] # NoFile

\* C4 as stated: for a periodic or cron service, whenever enable(s) returns without
\* error the timer is enabled and started and no enable was issued for the service
\* unit (here with every invocation answering by the Supervisor's state).
C4_EnableAlwaysStartsTimer ==
    (Returned("enable") /\ TimerType /\ last.exc = 0 /\ ~last.faulted)
    => Tm \in enabled /\ Tm \in active /\ ~Issued("enable", Sv)

\* C4 amended: for a periodic or cron service, when enable(s) returns without error
\* and the Supervisor had reported the timer not enabled, the timer is enabled and
\* started; when it had reported the timer enabled, enable issued nothing but the
\* is-enabled query; in neither case was an enable issued for the service unit.
C4_EnableFromNotEnabled ==
    (Returned("enable") /\ TimerType /\ last.exc = 0)
    => /\ ~Issued("enable", Sv)
       /\ last.calls # <<>> /\ last.calls[1][1] = "is-enabled" /\ last.calls[1][2] = Tm
       /\ IF last.calls[1][3] = 0
          THEN Len(last.calls) = 1
          ELSE Tm \in enabled /\ Tm \in active

C4_Witness ==
    /\ Returned("enable") /\ TimerType /\ last.exc = 0
    /\ Len(last.calls) = 3 /\ last.calls[1][3] = 1
    /\ Tm \in enabled /\ Tm \in active

\* C5 as stated: for a periodic or cron service, whenever disable(s) returns without
\* error the timer is stopped and disabled (here with every invocation answering by
\* the Supervisor's state).
C5_DisableAlwaysStopsTimer ==
    (Returned("disable") /\ TimerType /\ last.exc = 0 /\ ~last.faulted)
    => Tm \notin active /\ Tm \notin enabled

\* C5 amended: for a periodic or cron service, when disable(s) returns without error
\* and the Supervisor had reported the timer enabled, the timer is stopped and
\* disabled; when it had reported the timer not enabled, disable issued nothing but
\* the is-enabled query.
C5_DisableFromEnabled ==
    (Returned("disable") /\ TimerType /\ last.exc = 0)
    => /\ last.calls # <<>> /\ last.calls[1][1] = "is-enabled" /\ last.calls[1][2] = Tm
       /\ IF last.calls[1][3] = 0
          THEN Tm \notin active /\ Tm \notin enabled
          ELSE Len(last.calls) = 1

C5_Witness ==
    /\ Returned("disable") /\ TimerType /\ last.exc = 0
    /\ Len(last.calls) = 3 /\ last.calls[1][3] = 0 /\ last.calls[2] = <<"stop", Tm, 0>>
    /\ Tm \notin active /\ Tm \notin enabled

BatchCommands == {"cmd_install", "cmd_uninstall", "cmd_start", "cmd_stop", "cmd_restart",
                  "cmd_reload", "cmd_enable", "cmd_disable"}
C7_BatchContinues ==
    (pc = "exited" /\ last.op \in BatchCommands)
    => last.visited = get_services(Cfg(last.cfg), SelList(last.names), 0)

\* C8: in start, stop, restart, reload, enable, disable and install, a Supervisor
\* invocation that fails (a non-zero exit that is no recognized state code) makes
\* the operation fail.
Failed(call) ==
    /\ call[3] # 0
    /\ call[1] # "status"
    /\ ~(call[1] = "is-active" /\ call[3] \in {3, 4})
    /\ ~(call[1] = "is-enabled" /\ call[3] = 1)
C8_FailuresReported ==
    (/\ pc = "exited"
     /\ last.op \in {"start", "stop", "restart", "reload", "enable", "disable", "install"}
     /\ \E i \in DOMAIN last.calls : Failed(last.calls[i]))
    => last.exc # 0

\* C9: is-started exits 0 exactly when the Supervisor reports the service active,
\* is-enabled exits 0 exactly when it reports the unit enabled.
C9_ExitCodeMirrors ==
    (/\ pc = "exited"
     /\ last.op \in {"cmd_is_started", "cmd_is_enabled"}
     /\ last.calls # <<>>
     /\ ~Failed(last.calls[1]))
    => (last.status = 0 <=> last.calls[1][3] = 0)

\* C10: get_services('all') returns every declared service exactly once, in
\* declaration order.
C10_AllInOrder ==
    (rs.pc = "returned" /\ rs.filter = Sel("all"))
    => /\ rs.result # RecursionError
       /\ Len(rs.result) = Len(rs.cfg.order)
       /\ \A i \in DOMAIN rs.cfg.order : rs.result[i] = rs.cfg.order[i]
       /\ \A s \in ServiceNames(rs.cfg) :
             Cardinality({i \in DOMAIN rs.result : rs.result[i] = s}) = 1

C10_Witness ==
    /\ rs.pc = "returned" /\ rs.filter = Sel("all")
    /\ rs.result = <<"all", "a">>
    /\ DOMAIN rs.cfg.groups = {"g", "h"}

\* the per-entry results of a list of names, concatenated (RecursionError if any is)
RECURSIVE PerEntry(_, _)
PerEntry(c, names) ==
    IF names = <<>> THEN <<>>
    ELSE LET item == get_services(c, Sel(Head(names)), 0)
             rest == PerEntry(c, Tail(names))
         IN IF item = RecursionError \/ rest = RecursionError THEN RecursionError
            ELSE item \o rest
Count(q, s) == Cardinality({i \in DOMAIN q : q[i] = s})
Resolved == rs.pc = "returned" /\ rs.result # RecursionError

\* C11: get_services on a list selector is the concatenation, left to right, of
\* the results of its entries, nothing removed: with a service A and a group G that
\* contains A, get_services([A, G]) holds A at least twice.
C11_ListConcatenates ==
    (rs.pc = "returned" /\ rs.filter.list)
    => /\ rs.result = PerEntry(rs.cfg, rs.filter.v)
       /\ (/\ rs.result # RecursionError
           /\ rs.filter.v = <<"a", "g">>
           /\ "a" \in ServiceNames(rs.cfg)
           /\ "g" \in DOMAIN rs.cfg.groups
           /\ \E i \in DOMAIN rs.cfg.groups["g"] : rs.cfg.groups["g"][i] = "a")
          => Count(rs.result, "a") >= 2

C11_Witness ==
    /\ rs.pc = "returned" /\ rs.filter = SelList(<<"a", "g">>)
    /\ "g" \in DOMAIN rs.cfg.groups /\ rs.cfg.groups["g"] = <<"h", "a">>
    /\ rs.result = <<"a", "b", "a">>

\* C12 as stated: no service appears more than once in the result of get_services,
\* whatever the selector.
C12_Deduplicated ==
    Resolved => \A s \in ServiceNames(rs.cfg) : Count(rs.result, s) <= 1

\* C12 amended: get_services does not deduplicate: for a service name and for 'all'
\* no service appears more than once, and for a group or a list a service appears
\* as often as the members or entries, taken one by one, resolve to it.
C12_OncePerEntry ==
    Resolved
    => /\ (~rs.filter.list /\ rs.filter.v \in ServiceNames(rs.cfg) \cup {"all"})
          => \A s \in ServiceNames(rs.cfg) : Count(rs.result, s) <= 1
       /\ (~rs.filter.list /\ rs.filter.v \notin ServiceNames(rs.cfg) \cup {"all"}
           /\ rs.filter.v \in DOMAIN rs.cfg.groups)
          => \A s \in ServiceNames(rs.cfg) :
                Count(rs.result, s) = Count(PerEntry(rs.cfg, rs.cfg.groups[rs.filter.v]), s)
       /\ rs.filter.list
          => \A s \in ServiceNames(rs.cfg) :
                Count(rs.result, s) = Count(PerEntry(rs.cfg, rs.filter.v), s)

C12_Witness ==
    /\ rs.pc = "returned" /\ rs.filter = Sel("g")
    /\ "g" \in DOMAIN rs.cfg.groups /\ rs.cfg.groups["g"] = <<"a", "a">>
    /\ rs.result = <<"a", "a">>

\* C13: a name that is no declared service, no declared group and not 'all'
\* resolves to the empty list without error, and in a list selector or a group it
\* contributes nothing: the result is that of the selector and groups without it.
Without(q, n) == SelectSeq(q, LAMBDA e : e # n)
WithoutName(c, n) ==
    [c EXCEPT !.groups = [g \in DOMAIN c.groups |-> Without(c.groups[g], n)]]
C13_UnknownNameIsEmpty ==
    rs.pc = "returned"
    => /\ rs.filter = Sel("x") => rs.result = <<>>
       /\ rs.filter.list
          => rs.result = get_services(WithoutName(rs.cfg, "x"),
                                      SelList(Without(rs.filter.v, "x")), 0)
       /\ (~rs.filter.list /\ rs.filter.v # "x")
          => rs.result = get_services(WithoutName(rs.cfg, "x"), rs.filter, 0)

C13_Witness ==
    /\ rs.pc = "returned" /\ rs.filter = SelList(<<"x", "a">>)
    /\ rs.result = <<"a">>
    /\ "h" \in DOMAIN rs.cfg.groups /\ rs.cfg.groups["h"] = <<"x", "b">>

\* C14: get_services never recurses until the interpreter's stack is exhausted:
\* when group membership is cyclic it stops with a configuration error of its own
\* (there is none in the code) and otherwise returns the members' services in order.
C14_CyclesFailFast ==
    rs.pc = "returned"
    => /\ rs.result # RecursionError
       /\ rs.filter.list => rs.result = PerEntry(rs.cfg, rs.filter.v)

\* C15: in 'log --follow' one tail runs per selected service, and once any of them
\* has exited the command is not held up: it goes on to terminate and join the
\* others; when it has returned no tail is left running.
Following == pc = "running" /\ ps.cmd = "log"
C15_FirstExitEndsFollow ==
    /\ (Following /\ ps.at = "wait")
       => /\ Len(ps.procs) = Len(ps.services)
          /\ (\E k \in DOMAIN ps.procs : ps.procs[k] = "exited") => ENABLED LogStep
    /\ (pc = "exited" /\ ps.cmd = "log" /\ ps.at = "done")
       => \A k \in DOMAIN ps.procs : ps.procs[k] = "reaped"

\* C16: the parent of 'run' never exits while the child it spawned is alive,
\* however many interrupts arrive and also when the child ignores the signal, and
\* it exits with the child's exit code.
C16_ParentOutlivesChild ==
    (pc = "exited" /\ ps.cmd = "run" /\ ps.child # "none")
    => ps.child = "reaped" /\ ps.status = ExitStatus(ps.code)

\* what the resolver returns for the names of the command that returned
IsPrefix(p, q) == Len(p) <= Len(q) /\ p = SubSeq(q, 1, Len(p))
Selected == get_services(Cfg(last.cfg), SelList(last.names), 0)
SelectedForStatus == get_services(Cfg(last.cfg), StatusFilter(last.names), 0)
StatusCommands == {"cmd_status", "cmd_status_json"}

\* C17 as stated: every batch command, status and json included, visits services
\* one after the other in the order the resolver returned them.
C17_ResolverOrder ==
    /\ (pc = "exited" /\ last.op \in BatchCommands \cup {"cmd_log"})
       => IsPrefix(last.visited, Selected)
    /\ (pc = "exited" /\ last.op \in StatusCommands)
       => IsPrefix(last.visited, SelectedForStatus)

\* C17 amended: install, uninstall, start, stop, restart, reload, enable, disable
\* and log visit services one after the other in the order the resolver returned
\* them; status and json visit them in ascending order of service name.
C17_OrderOrSortedByName ==
    /\ (pc = "exited" /\ last.op \in BatchCommands \cup {"cmd_log"})
       => IsPrefix(last.visited, Selected)
    /\ (pc = "exited" /\ last.op \in StatusCommands)
       => /\ IsPrefix(last.visited, sorted(SelectedForStatus))
          /\ \A i, j \in DOMAIN last.visited :
                i < j => ~NameLess(last.visited[j], last.visited[i])

C17_Witness ==
    /\ Returned("cmd_status") /\ last.names = <<>>
    /\ SelectedForStatus = <<"web", "job">>
    /\ last.visited = <<"job", "web">>

\* C18: cmd 'app.js', app.js in the working directory and not executable, node on
\* the search path (and no file named node in the working directory): the argv is
\* [absolute path of node, absolute path of app.js].
C18_InterpreterPrepended ==
    (/\ ld.pc = "resolved"
     /\ ld.e.form = "cmd" /\ ld.e.name = <<"app", ".js">> /\ ld.e.args = <<>>
     /\ ld.e.kind = "file" /\ ld.e.onpath /\ ld.e.local = "none")
    => /\ ld.argv # ValueError
       /\ Len(ld.argv) = 2
       /\ ld.argv[1] = realpath(ld.e, which(ld.e, <<"node">>))
       /\ isabs(ld.argv[2])
       /\ ld.argv[2] = resolve(ld.e, ld.e.name)

\* C19: when the resolution succeeds args[0] is an absolute path to a regular file
\* that has execute permission, and the resolution fails when the path it arrives
\* at is no regular file or is not executable.
C19_ResolvedIsExecutable ==
    (ld.pc = "resolved" /\ ld.argv # ValueError)
    => /\ isabs(ld.argv[1])
       /\ Kind(ld.e, ld.argv[1]) = "xfile"

\* the text with every '{name}', name a key of env, replaced by the key's value
StartsWith(data, pre) == Len(data) >= Len(pre) /\ SubSeq(data, 1, Len(pre)) = pre
RECURSIVE Substituted(_, _)
Substituted(env, data) ==
    IF data = <<>> THEN <<>>
    ELSE IF \E k \in DOMAIN env : StartsWith(data, <<"{">> \o k \o <<"}">>)
         THEN LET k == CHOOSE k \in DOMAIN env : StartsWith(data, <<"{">> \o k \o <<"}">>)
              IN env[k] \o Substituted(env, SubSeq(data, Len(k) + 3, Len(data)))
    ELSE <<Head(data)>> \o Substituted(env, Tail(data))
Plain(text) == \A i \in DOMAIN text : text[i] \notin {"{", "}"}

\* C20: with env values that hold no braces, the load replaces every '{name}' whose
\* name is a key of env by the value as a string in every string of the service map
\* and the group map, leaves the other placeholders as they are and warns of them,
\* and leaves what is no string alone.
C20_EveryPlaceholderReplaced ==
    (ld.pc = "loaded" /\ \A k \in DOMAIN ld.m.env : Plain(str(ld.m.env[k])))
    => LET env == normalize_env(ld.m.env)
           want == Substituted(env, ld.text)
           web == ld.m.services["web"]
       IN /\ web.cmd = want
          /\ web.args = <<want>>
          /\ web.env[<<"K">>] = want
          /\ ld.m.groups[<<"g">>] = <<want>>
          /\ web.nofile = 1024 /\ web.syslog = FALSE /\ web.type = "daemon"
          /\ (\E i \in 1..(Len(ld.text) - 2) : SubSeq(ld.text, i, i + 2) = <<"{", "u", "}">>)
             => ld.m.warnings # <<>>

\* the positions of the trace at which the invocation did one of kinds
At(kinds) == {i \in DOMAIN last.trace : last.trace[i][1] \in kinds}

NotActive == {3, 4}
NotEnabled == {1}

\* C22: a probe takes the recognized status codes for observations and every other
\* code for an error: is_started returns true on exit 0, false on exit 3 or 4 and
\* raises on any other exit of 'systemctl is-active'; is_enabled returns true on
\* exit 0, false on exit 1 and raises on any other exit of 'systemctl is-enabled';
\* neither issues anything else, and neither changes the unit directory or the
\* Supervisor's state.
C22_ProbesObserve ==
    [][(pc' = "exited" /\ last'.op \in {"is_started", "is_enabled"}) =>
          LET l == last'
              no == IF l.op = "is_started" THEN NotActive ELSE NotEnabled
          IN /\ UNCHANGED <<files, active, enabled>>
             /\ Len(l.calls) <= 1
             /\ l.op = "is_started" =>
                    /\ Len(l.calls) = 1
                    /\ l.calls[1][1] = "is-active"
                    /\ l.calls[1][2] = Unit(ld.cfg, l.svc, "service")
             /\ l.calls # <<>> =>
                    /\ l.calls[1][1] \in {"is-active", "is-enabled"}
                    /\ l.calls[1][3] = 0 => l.exc = 0 /\ l.ret
                    /\ l.calls[1][3] \in no => l.exc = 0 /\ ~l.ret
                    /\ l.calls[1][3] \notin no \cup {0} => l.exc = l.calls[1][3]
      ]_vars

\* is_started saw exit 4 (no such unit) and returned false
C22_Witness ==
    /\ Returned("is_started")
    /\ last.calls[1][3] = 4
    /\ last.exc = 0 /\ ~last.ret

\* the service the invocation that returned was about, as its process loaded it
Loaded == ld.cfg.services[last.svc]
\* the scheduling field that matches the type is present
Scheduled(sv) ==
    \/ sv.type = "periodic" /\ sv.interval # None
    \/ sv.type = "cron" /\ sv.cron # <<None>>

\* C23: timer_template yields a timer unit only for a periodic service with an
\* interval and a cron service with a cron field; for every other service (periodic
\* without interval, cron without cron, daemon, untyped) it yields nothing and
\* install writes no .timer file.
C23_TimerNeedsSchedule ==
    Returned("install") =>
        /\ ~Scheduled(Loaded) =>
               /\ timer_template(Now({}, 0), ld.cfg, last.svc).text = NoneText
               /\ \A i \in DOMAIN last.written : last.written[i][3] # "timer"
        /\ (Scheduled(Loaded) /\ last.exc = 0) =>
               files[Unit(ld.cfg, last.svc, "timer")] # NoFile

\* the calendar parser's answers in the invocation that returned
CalendarCalls == {i \in DOMAIN last.calls : last.calls[i][1] = "calendar"}

\* C24: for a cron service install has every calendar expression checked by
\* 'systemd-analyze calendar' before the timer unit is written; when the parser
\* rejects one, timer synthesis raises, install fails and writes no timer unit.
C24_CalendarValidated ==
    (Returned("install") /\ Loaded.type = "cron" /\ Loaded.cron # <<None>>) =>
        LET tm == Unit(ld.cfg, last.svc, "timer")
            rejected == \E i \in CalendarCalls : last.calls[i][3] # 0
            wrote == \E i \in DOMAIN last.written : last.written[i] = tm
        IN /\ rejected => last.exc # 0 /\ ~wrote
           /\ (\E i \in DOMAIN Loaded.cron : Loaded.cron[i] \notin ValidCalendar) => ~wrote
           /\ wrote => Cardinality(CalendarCalls) = Len(Loaded.cron)
           /\ (last.exc = 0 \/ Issued("daemon-reload", NoUnit)) =>
                  Cardinality(CalendarCalls) = Len(Loaded.cron)
           /\ \A i \in At({"calendar"}), j \in At({"write"}) :
                  last.trace[j][2] = tm => i < j

\* the parser accepted 'daily' and rejected the second expression: install failed
\* after the service unit, and before any timer unit, was written
C24_Witness ==
    /\ Returned("install") /\ Loaded.cron = <<"daily", "fortnightly-ish">>
    /\ Cardinality(CalendarCalls) = 2
    /\ last.calls[2][3] = 1
    /\ last.exc = 1
    /\ last.written = <<Unit(ld.cfg, last.svc, "service")>>

\* C25: after an install that succeeded, the unit directory holds the service's
\* timer unit if and only if the service's type is periodic or cron, whatever the
\* unit directory held before.
C25_TimerFileIffTimerType ==
    (Returned("install") /\ last.exc = 0) =>
        (files[Unit(ld.cfg, last.svc, "timer")] # NoFile
            <=> Loaded.type \in {"periodic", "cron"})

\* C26: after uninstall(s) of a periodic or cron service returns, the service's timer
\* unit is neither active nor enabled, whatever the Supervisor's state was before and
\* whatever the probes answered.
C26_UninstallStopsTimer ==
    (Returned("uninstall") /\ TimerType) => Tm \notin active /\ Tm \notin enabled

\* C27: install is all-or-nothing on disk: an install that fails (timer synthesis,
\* daemon-reload or enable raising) has left the unit directory as it found it.
C27_InstallAllOrNothing ==
    (Returned("install") /\ last.exc # 0) => last.written = <<>>

\* every '{' of the text opens a placeholder '{name}' whose name holds no brace
WellBraced(text) ==
    \A i \in DOMAIN findall(text, 1) :
        Plain(SubSeq(findall(text, 1)[i], 2, Len(findall(text, 1)[i]) - 1))

\* C28: substitution is one simultaneous pass: a string of well-formed placeholders
\* is loaded as the original string with each placeholder whose name is a key of env
\* replaced by the key's value; what a replacement brought in is not expanded, so
\* the result is the same wherever in the string a placeholder stands.
C28_SinglePass ==
    (ld.pc = "loaded" /\ WellBraced(ld.text)) =>
        LET want == Substituted(normalize_env(ld.m.env), ld.text) IN
        /\ ld.m.services["web"].cmd = want
        /\ ld.m.services["web"].args = <<want>>
        /\ ld.m.groups[<<"g">>] = <<want>>

\* the manifest the process loaded declares its service without a type
Untyped == ld.pc = "manifest" /\ \A s \in ServiceNames(ld.cfg) : ld.cfg.services[s].type = None

\* C29: for a service whose type is unset, is_enabled returns true and asks the
\* Supervisor nothing; enable and disable issue no invocation at all, install issues
\* no is-enabled, enable, disable, start or stop, and every line status prints for
\* the service says 'enabled', whatever the Supervisor's state.
C29_UntypedCountsAsEnabled ==
    (Untyped /\ pc = "exited") =>
        /\ last.op = "is_enabled" => last.calls = <<>> /\ last.exc = 0 /\ last.ret
        /\ last.op \in {"enable", "disable"} => last.trace = <<>> /\ last.exc = 0
        /\ last.op = "install" =>
               At({"is-enabled", "enable", "disable", "start", "stop"}) = {}
        /\ last.op = "cmd_status" =>
               /\ At({"is-enabled", "enable", "disable", "start", "stop"}) = {}
               /\ \A i \in DOMAIN last.out : last.out[i][2] = "enabled"
               /\ last.exc = 0 => Len(last.out) = Len(last.visited)

\* status printed 'enabled' for an installed untyped service that the Supervisor
\* does not hold enabled
C29_Witness ==
    /\ Untyped /\ Returned("cmd_status")
    /\ files[Unit(ld.cfg, "svc", "service")] # NoFile
    /\ enabled = {}
    /\ last.out # <<>> /\ last.out[1][2] = "enabled"

\* C30: install issues no start, stop, restart or reload for the service's .service
\* unit, which is active after install exactly if it was before, also when its unit
\* file was rewritten; the one unit install may start is the .timer of a periodic or
\* cron service, and it stops none.
C30_InstallLeavesServiceRunState ==
    [][(pc' = "exited" /\ last'.op = "install") =>
          LET sv == Unit(ld.cfg, last'.svc, "service")
              tm == Unit(ld.cfg, last'.svc, "timer")
              t == last'.trace
          IN /\ (sv \in active') <=> (sv \in active)
             /\ \A i \in DOMAIN t :
                    /\ t[i][1] \notin {"stop", "restart", "reload"}
                    /\ t[i][1] = "start" =>
                           /\ t[i][2] = tm
                           /\ ld.cfg.services[last'.svc].type \in {"periodic", "cron"}
             /\ active' \subseteq active \cup {tm}
             /\ active \subseteq active'
      ]_vars

\* install rewrote the unit file of a service that is running
C30_Witness ==
    /\ ld.pc = "manifest" /\ Returned("install") /\ last.exc = 0
    /\ Unit(ld.cfg, last.svc, "service") \in active
    /\ \E i \in DOMAIN last.written : last.written[i] = Unit(ld.cfg, last.svc, "service")

====
